---- MODULE Spec2Model ----
(***************************************************************************)
(* Model of the two tool handlers registered by                            *)
(* register_award_search_tools (tools/award_spending.py):                  *)
(*   - search_spending_by_award : sequential paginated POST loop           *)
(*   - get_award_details        : semaphore-bounded concurrent GET fan-out *)
(* Python dicts are functions whose DOMAIN is the set of keys present;     *)
(* Python lists are sequences.  Spec drives one invocation of the search   *)
(* tool, DetailSpec one invocation of the detail tool.                     *)
(***************************************************************************)
EXTENDS Integers, Sequences, FiniteSets, TLC

VARIABLES
    pc,                    \* position of search_spending_by_award
    award_search_request,  \* the caller's request object (pagination is a reference)
    heap,                  \* BasePagination objects by reference
    pages_to_fetch,        \* argument
    upstream,              \* what client.post does on the i-th call of this invocation
    posts,                 \* bodies handed to client.post, in call order
    inflight,              \* POST calls awaited and not yet answered
    response,              \* local: first page's response dict
    all_results,           \* local
    pages_fetched,         \* local
    current_page,          \* local
    has_next,              \* local
    next_request,          \* local: the request object built for the next page
    ret,                   \* what the tool handed back to its caller
    request0,              \* history: model_dump of the request when the call started
    dpc,                   \* position of get_award_details
    award_ids,             \* argument
    max_concurrent,        \* argument, then rebound at line 201
    requested,             \* history: max_concurrent as passed by the caller
    outcome,               \* what client.get does for the i-th task
    semaphore,             \* asyncio.Semaphore counter (free slots)
    task,                  \* per fetch_award task: "created" | "inflight" | "done"
    results,               \* per task: the dict fetch_award returned
    gets,                  \* per task: number of client.get calls issued for it
    dret,                  \* what get_award_details handed back
    tp_pc,                 \* position of the construction of a TimePeriod
    start_date,            \* TimePeriod.start_date as supplied (a string, as a sequence of characters)
    end_date,              \* TimePeriod.end_date as supplied
    tp_errors              \* validation errors collected for the TimePeriod

svars == <<pc, award_search_request, heap, pages_to_fetch, upstream, posts, inflight,
           response, all_results, pages_fetched, current_page, has_next,
           next_request, ret, request0>>
dvars == <<dpc, award_ids, max_concurrent, requested, outcome, semaphore, task, results, gets, dret>>
tvars == <<tp_pc, start_date, end_date, tp_errors>>
vars == <<svars, dvars, tvars>>

(***************************************************************************)
(* Bounds of the model                                                     *)
(***************************************************************************)
MaxBudget == 3      \* largest pages_to_fetch explored
MaxIds == 3         \* longest award_ids list explored
MaxConcurrent == 4  \* largest max_concurrent argument explored

StartPages == {1, 2}                 \* pagination.page of the incoming request
ResultLists == {<<>>, <<1>>, <<1, 2>>} \* "results" arrays a page may carry
AwardIdPool == {"A1", "A2", "A3"}
ConcurrencyCeiling == 10             \* the literal 10 of min(max_concurrent, 10, len(award_ids))

(***************************************************************************)
(* Python helpers                                                          *)
(***************************************************************************)
EmptyDict == <<>>

\* dict.get(k, default)
Get(d, k, default) == IF k \in DOMAIN d THEN d[k] ELSE default

\* dict.update(e) / d[k] = v : keys of e win, other keys of d are kept
Update(d, e) == [k \in (DOMAIN d) \cup (DOMAIN e) |-> IF k \in DOMAIN e THEN e[k] ELSE d[k]]

Min2(a, b) == IF a <= b THEN a ELSE b

\* list.extend
Extend_replace(all, page) == page
Extend(all, page) == all \o page

(***************************************************************************)
(* Request model (models/common_models.py, award_spending_models.py)       *)
(***************************************************************************)
\* BasePagination(page, limit=100, order=desc)
BasePagination(p) == [page |-> p, limit |-> 100, order |-> "desc"]

\* AwardSearchRequest: filters/fields/subawards are opaque values, sort is None,
\* pagination is a reference into heap.
AwardSearchRequest(ref) ==
    [filters |-> "filters", fields |-> "fields", subawards |-> FALSE, pagination |-> ref]

\* BaseModel.model_copy(): shallow, the copy's fields refer to the same objects
model_copy(req) == [f \in DOMAIN req |-> req[f]]

\* BaseModel.model_dump(exclude_none=True): nested models become plain dicts
model_dump(req, h) == [req EXCEPT !.pagination = h[req.pagination]]

(***************************************************************************)
(* Upstream behaviours of client.post                                      *)
(***************************************************************************)
PageMetadatas ==
    {[last_record_unique_id |-> 0]} \cup
    {[last_record_unique_id |-> 0, hasNext |-> b] : b \in BOOLEAN}

ResponseBodies ==
    {[limit |-> 100, results |-> r, page_metadata |-> m] : r \in ResultLists, m \in PageMetadatas}
    \cup {[limit |-> 100, results |-> r] : r \in ResultLists}
    \cup {[limit |-> 100, page_metadata |-> m] : m \in PageMetadatas}
    \cup {[limit |-> 100]}

PostBehaviours ==
    {[kind |-> "raise", detail |-> "transport error"]} \cup
    {[kind |-> "ok", body |-> b] : b \in ResponseBodies}

\* behaviour of the i-th POST; a page the scenario does not define fails
PostOutcome(i) ==
    IF i \in DOMAIN upstream THEN upstream[i]
    ELSE [kind |-> "raise", detail |-> "transport error"]

(***************************************************************************)
(* search_spending_by_award                                                *)
(***************************************************************************)
\* line 149
SearchErrorString_generic(detail) == <<"Error: ", detail>>
SearchErrorString(detail) == <<"Error searching spending by award: ", detail>>

\* line 87
FirstPageOnly_zero(ptf) == ptf <= 0
FirstPageOnly(ptf) == ptf <= 1

\* line 102
LoopGuard_inclusive(hn, pf, ptf) == hn /\ pf <= ptf
LoopGuard(hn, pf, ptf) == hn /\ pf < ptf

\* line 125
NoResults_never(page_results) == FALSE
NoResults(page_results) == page_results = <<>>

\* line 142
FetchCompleted_nolimit(hn, pf, ptf) == ~hn
FetchCompleted_budgetonly(hn, pf, ptf) == pf >= ptf
FetchCompleted(hn, pf, ptf) == ~hn \/ pf >= ptf

\* lines 96-97 / 121-122
HasNextOf(resp) == Get(Get(resp, "page_metadata", EmptyDict), "hasNext", FALSE)

\* lines 91 / 117
ResultsOf(resp) == Get(resp, "results", <<>>)

\* lines 136-144
Enrichment(all, pf, ptf, hn) ==
    [total_results_fetched |-> Len(all),
     pages_fetched |-> pf,
     requested_max_pages |-> ptf,
     has_more_pages |-> hn,
     fetch_completed |-> FetchCompleted(hn, pf, ptf)]

\* line 104
CountPage_skip(pf) == pf
CountPage(pf) == pf + 1

\* line 103
NextPage_stuck(cp) == cp
NextPage(cp) == cp + 1

JsonReturn(body) == [kind |-> "json", body |-> body]
StringReturn(text) == [kind |-> "string", text |-> text]
NoReturn == [kind |-> "none"]

\* lines 148-149: the outer handler turns any Exception into a string result
SearchExcept_reraise(detail) == [kind |-> "raised", detail |-> detail]
SearchExcept(detail) == StringReturn(SearchErrorString(detail))

SearchInit ==
    /\ pc = "start"
    /\ \E p \in StartPages :
          /\ heap = [r \in {1} |-> BasePagination(p)]
          /\ request0 = model_dump(AwardSearchRequest(1), [r \in {1} |-> BasePagination(p)])
    /\ award_search_request = AwardSearchRequest(1)
    /\ pages_to_fetch \in 0..MaxBudget
    /\ upstream \in [1..(IF pages_to_fetch > 1 THEN pages_to_fetch ELSE 1) -> PostBehaviours]
    /\ posts = <<>>
    /\ inflight = 0
    /\ response = [limit |-> 100]
    /\ all_results = <<>>
    /\ pages_fetched = 0
    /\ current_page = 0
    /\ has_next = FALSE
    /\ next_request = AwardSearchRequest(1)
    /\ ret = NoReturn

SearchIdle ==
    /\ pc = "idle"
    /\ heap = [r \in {1} |-> BasePagination(1)]
    /\ request0 = model_dump(AwardSearchRequest(1), heap)
    /\ award_search_request = AwardSearchRequest(1)
    /\ pages_to_fetch = 0
    /\ upstream = <<>>
    /\ posts = <<>>
    /\ inflight = 0
    /\ response = [limit |-> 100]
    /\ all_results = <<>>
    /\ pages_fetched = 0
    /\ current_page = 0
    /\ has_next = FALSE
    /\ next_request = AwardSearchRequest(1)
    /\ ret = NoReturn

\* lines 81-83: the initial call is issued
PostFirst ==
    /\ pc = "start"
    /\ posts' = Append(posts, model_dump(award_search_request, heap))
    /\ inflight' = inflight + 1
    /\ pc' = "await_first"
    /\ UNCHANGED <<award_search_request, heap, pages_to_fetch, upstream, response,
                   all_results, pages_fetched, current_page, has_next, next_request,
                   ret, request0, dvars, tvars>>

\* lines 81-88: the initial call returns and pages_to_fetch <= 1
FirstReturnsSinglePage ==
    /\ pc = "await_first"
    /\ PostOutcome(Len(posts)).kind = "ok"
    /\ FirstPageOnly(pages_to_fetch)
    /\ inflight' = inflight - 1
    /\ response' = PostOutcome(Len(posts)).body
    /\ ret' = JsonReturn(response')
    /\ pc' = "done"
    /\ UNCHANGED <<award_search_request, heap, pages_to_fetch, upstream, posts,
                   all_results, pages_fetched, current_page, has_next, next_request,
                   request0, dvars, tvars>>

\* lines 81-99: the initial call returns and the multi-page path is set up
FirstReturnsMultiPage ==
    /\ pc = "await_first"
    /\ PostOutcome(Len(posts)).kind = "ok"
    /\ ~FirstPageOnly(pages_to_fetch)
    /\ inflight' = inflight - 1
    /\ response' = PostOutcome(Len(posts)).body
    /\ all_results' = ResultsOf(response')
    /\ pages_fetched' = 1
    /\ current_page' = heap[award_search_request.pagination].page
    /\ has_next' = HasNextOf(response')
    /\ pc' = "loop"
    /\ UNCHANGED <<award_search_request, heap, pages_to_fetch, upstream, posts,
                   next_request, ret, request0, dvars, tvars>>

\* lines 81-83, 148-149: the initial call raises
FirstRaises ==
    /\ pc = "await_first"
    /\ PostOutcome(Len(posts)).kind = "raise"
    /\ inflight' = inflight - 1
    /\ ret' = SearchExcept(PostOutcome(Len(posts)).detail)
    /\ pc' = "done"
    /\ UNCHANGED <<award_search_request, heap, pages_to_fetch, upstream, posts, response,
                   all_results, pages_fetched, current_page, has_next, next_request,
                   request0, dvars, tvars>>

\* lines 102-114: one more iteration; the copy shares the pagination object,
\* so the assignment at line 108 writes through the shared reference
PostNext ==
    /\ pc = "loop"
    /\ LoopGuard(has_next, pages_fetched, pages_to_fetch)
    /\ current_page' = NextPage(current_page)
    /\ pages_fetched' = CountPage(pages_fetched)
    /\ next_request' = model_copy(award_search_request)
    /\ heap' = [heap EXCEPT ![next_request'.pagination].page = current_page']
    /\ posts' = Append(posts, model_dump(next_request', heap'))
    /\ inflight' = inflight + 1
    /\ pc' = "await_next"
    /\ UNCHANGED <<award_search_request, pages_to_fetch, upstream, response, all_results,
                   has_next, ret, request0, dvars, tvars>>

\* lines 112-126: the page call returns; all_results is the list object held by
\* response["results"] when that key was present, so extend() shows there too
NextReturns ==
    /\ pc = "await_next"
    /\ PostOutcome(Len(posts)).kind = "ok"
    /\ inflight' = inflight - 1
    /\ LET next_response == PostOutcome(Len(posts)).body
           page_results == ResultsOf(next_response)
       IN /\ all_results' = Extend(all_results, page_results)
          /\ has_next' = HasNextOf(next_response)
          /\ pc' = IF NoResults(page_results) THEN "build" ELSE "loop"
    /\ response' = IF "results" \in DOMAIN response
                   THEN [response EXCEPT !.results = all_results']
                   ELSE response
    /\ UNCHANGED <<award_search_request, heap, pages_to_fetch, upstream, posts,
                   pages_fetched, current_page, next_request, ret, request0, dvars, tvars>>

\* lines 128-131: the page call raises; logged, loop left
NextRaises ==
    /\ pc = "await_next"
    /\ PostOutcome(Len(posts)).kind = "raise"
    /\ inflight' = inflight - 1
    /\ pc' = "build"
    /\ UNCHANGED <<award_search_request, heap, pages_to_fetch, upstream, posts, response,
                   all_results, pages_fetched, current_page, has_next, next_request,
                   ret, request0, dvars, tvars>>

\* line 102: the loop condition is false
LoopExit ==
    /\ pc = "loop"
    /\ ~LoopGuard(has_next, pages_fetched, pages_to_fetch)
    /\ pc' = "build"
    /\ UNCHANGED <<award_search_request, heap, pages_to_fetch, upstream, posts, inflight,
                   response, all_results, pages_fetched, current_page, has_next,
                   next_request, ret, request0, dvars, tvars>>

\* lines 134-146: response.copy() is shallow, page_metadata is updated in place
BuildFinal ==
    /\ pc = "build"
    /\ "page_metadata" \in DOMAIN response
    /\ LET meta == Update(response.page_metadata,
                          Enrichment(all_results, pages_fetched, pages_to_fetch, has_next))
           final_response == Update(response,
                                    [results |-> all_results, page_metadata |-> meta])
       IN /\ response' = [response EXCEPT !.page_metadata = meta]
          /\ ret' = JsonReturn(final_response)
    /\ pc' = "done"
    /\ UNCHANGED <<award_search_request, heap, pages_to_fetch, upstream, posts, inflight,
                   all_results, pages_fetched, current_page, has_next, next_request,
                   request0, dvars, tvars>>

\* lines 136, 148-149: final_response["page_metadata"] raises KeyError
BuildFinalKeyError ==
    /\ pc = "build"
    /\ "page_metadata" \notin DOMAIN response
    /\ ret' = SearchExcept("'page_metadata'")
    /\ pc' = "done"
    /\ UNCHANGED <<award_search_request, heap, pages_to_fetch, upstream, posts, inflight,
                   response, all_results, pages_fetched, current_page, has_next,
                   next_request, request0, dvars, tvars>>

SearchNext ==
    \/ PostFirst
    \/ FirstReturnsSinglePage
    \/ FirstReturnsMultiPage
    \/ FirstRaises
    \/ PostNext
    \/ NextReturns
    \/ NextRaises
    \/ LoopExit
    \/ BuildFinal
    \/ BuildFinalKeyError

(***************************************************************************)
(* get_award_details                                                       *)
(***************************************************************************)
Tasks == 1..Len(award_ids)

\* line 197: "if not award_ids"
NoIds_never(ids) == FALSE
NoIds(ids) == ids = <<>>

\* line 206, leaving "async with semaphore": the slot is given back whether the
\* body returned normally or through the except clause
ReleaseAfter_leak(sem, raised) == IF raised THEN sem ELSE sem + 1
ReleaseAfter(sem, raised) == sem + 1

\* line 214: gather() returns when every task has finished
GatherComplete_started(t) == \A i \in DOMAIN t : t[i] # "created"
GatherComplete_first(t) == \E i \in DOMAIN t : t[i] = "done"
GatherComplete(t) == \A i \in DOMAIN t : t[i] = "done"

\* line 201
EffectiveConcurrency_nocap(mc, n) == n
EffectiveConcurrency(mc, n) == Min2(Min2(mc, ConcurrencyCeiling), n)

\* asyncio.Semaphore.acquire: a slot is taken only while the counter is positive
CanAcquire(sem) == sem > 0

\* payload / failure of the GET awards/{aid}/ issued by task i
GetData(i) == [generated_unique_award_id |-> award_ids[i], call |-> i]
GetError(i) == <<"transport error", i>>

\* line 209
SuccessResult(i) == [award_id |-> award_ids[i], success |-> TRUE, data |-> GetData(i)]

\* line 211
FailureResult_assuccess(i) == [award_id |-> award_ids[i], success |-> TRUE, data |-> GetError(i)]
FailureResult(i) == [award_id |-> award_ids[i], success |-> FALSE, error |-> GetError(i)]

\* lines 217-224: the loop over the gathered results, in award_ids order;
\* want = TRUE builds success_results, want = FALSE builds error_results
RECURSIVE Partition(_, _)
Partition(i, want) ==
    IF i = 0 THEN EmptyDict
    ELSE LET prev == Partition(i - 1, want)
             r == results[i]
         IN IF i \notin DOMAIN results THEN prev
            ELSE IF r.success = want
            THEN Update(prev, [a \in {r.award_id} |-> IF want THEN r.data ELSE r.error])
            ELSE prev

\* line 232
IncludeErrors_always(error_results) == TRUE
IncludeErrors(error_results) == DOMAIN error_results # {}

\* lines 226-235
DetailResponse(success_results, error_results) ==
    LET base == [success_count |-> Cardinality(DOMAIN success_results),
                 error_count |-> Cardinality(DOMAIN error_results),
                 results |-> success_results]
    IN IF IncludeErrors(error_results)
       THEN Update(base, [errors |-> error_results])
       ELSE base

\* line 238
DetailErrorString(detail) == <<"Error processing award details request: ", detail>>

\* lines 237-238: the outer handler turns any Exception into a string result
DetailExcept(detail) == StringReturn(DetailErrorString(detail))

\* a list one longer than the ceiling, so that the literal 10 is the binding term
LongIds == [i \in 1..(ConcurrencyCeiling + 1) |-> ToString(i)]

\* five distinct identifiers, the second and fourth of which fail
FiveIds == <<"1", "2", "3", "4", "5">>

DetailInit ==
    /\ dpc = "start"
    /\ \/ /\ award_ids \in UNION {[1..n -> AwardIdPool] : n \in 0..MaxIds}
          /\ requested \in (-1)..MaxConcurrent
          /\ outcome \in [1..Len(award_ids) -> {"ok", "raise"}]
       \/ /\ award_ids = LongIds
          /\ requested = 2 * ConcurrencyCeiling
          /\ outcome = [i \in 1..Len(award_ids) |-> "ok"]
       \/ /\ award_ids = FiveIds
          /\ requested = ConcurrencyCeiling
          /\ outcome = [i \in 1..Len(award_ids) |-> IF i \in {2, 4} THEN "raise" ELSE "ok"]
    /\ max_concurrent = requested
    /\ semaphore = 0
    /\ task = [i \in 1..Len(award_ids) |-> "none"]
    /\ results = EmptyDict
    /\ gets = [i \in 1..Len(award_ids) |-> 0]
    /\ dret = NoReturn

DetailIdle ==
    /\ dpc = "idle"
    /\ award_ids = <<>>
    /\ requested = 0
    /\ outcome = <<>>
    /\ max_concurrent = 0
    /\ semaphore = 0
    /\ task = <<>>
    /\ results = EmptyDict
    /\ gets = <<>>
    /\ dret = NoReturn

\* lines 197-198
ReturnNoIds ==
    /\ dpc = "start"
    /\ NoIds(award_ids)
    /\ dret' = StringReturn(<<"Error: No valid award IDs provided">>)
    /\ dpc' = "done"
    /\ UNCHANGED <<award_ids, max_concurrent, requested, outcome, semaphore, task,
                   results, gets, svars, tvars>>

\* lines 201-202, 237-238: asyncio.Semaphore rejects a negative initial value
SemaphoreValueError ==
    /\ dpc = "start"
    /\ ~NoIds(award_ids)
    /\ EffectiveConcurrency(max_concurrent, Len(award_ids)) < 0
    /\ max_concurrent' = EffectiveConcurrency(max_concurrent, Len(award_ids))
    /\ dret' = DetailExcept("Semaphore initial value must be >= 0")
    /\ dpc' = "done"
    /\ UNCHANGED <<award_ids, requested, outcome, semaphore, task, results, gets, svars, tvars>>

\* lines 201-214: the semaphore is created and gather() creates one task per id
Dispatch ==
    /\ dpc = "start"
    /\ ~NoIds(award_ids)
    /\ EffectiveConcurrency(max_concurrent, Len(award_ids)) >= 0
    /\ max_concurrent' = EffectiveConcurrency(max_concurrent, Len(award_ids))
    /\ semaphore' = max_concurrent'
    /\ task' = [i \in Tasks |-> "created"]
    /\ dpc' = "gather"
    /\ UNCHANGED <<award_ids, requested, outcome, results, gets, dret, svars, tvars>>

\* lines 206-208: task i enters the semaphore and issues its GET.  Which waiting
\* task gets a free slot is left open (asyncio wakes waiters in FIFO order).
Acquire(i) ==
    /\ dpc = "gather"
    /\ task[i] = "created"
    /\ CanAcquire(semaphore)
    /\ semaphore' = semaphore - 1
    /\ task' = [task EXCEPT ![i] = "inflight"]
    /\ gets' = [gets EXCEPT ![i] = @ + 1]
    /\ UNCHANGED <<dpc, award_ids, max_concurrent, requested, outcome, results, dret, svars, tvars>>

\* lines 208-209 and the exit of "async with": the GET returns, the slot is released
GetReturns(i) ==
    /\ dpc = "gather"
    /\ task[i] = "inflight"
    /\ outcome[i] = "ok"
    /\ results' = Update(results, [j \in {i} |-> SuccessResult(i)])
    /\ semaphore' = ReleaseAfter(semaphore, FALSE)
    /\ task' = [task EXCEPT ![i] = "done"]
    /\ UNCHANGED <<dpc, award_ids, max_concurrent, requested, outcome, gets, dret, svars, tvars>>

\* lines 210-211 and the exit of "async with": the GET raises, the slot is released
GetRaises(i) ==
    /\ dpc = "gather"
    /\ task[i] = "inflight"
    /\ outcome[i] = "raise"
    /\ results' = Update(results, [j \in {i} |-> FailureResult(i)])
    /\ semaphore' = ReleaseAfter(semaphore, TRUE)
    /\ task' = [task EXCEPT ![i] = "done"]
    /\ UNCHANGED <<dpc, award_ids, max_concurrent, requested, outcome, gets, dret, svars, tvars>>

\* lines 214-235: gather() returns once every task is done; the response is built
Collect ==
    /\ dpc = "gather"
    /\ GatherComplete(task)
    /\ dret' = JsonReturn(DetailResponse(Partition(Len(award_ids), TRUE),
                                         Partition(Len(award_ids), FALSE)))
    /\ dpc' = "done"
    /\ UNCHANGED <<award_ids, max_concurrent, requested, outcome, semaphore, task,
                   results, gets, svars, tvars>>

DetailNext ==
    \/ ReturnNoIds
    \/ SemaphoreValueError
    \/ Dispatch
    \/ \E i \in Tasks : Acquire(i)
    \/ \E i \in Tasks : GetReturns(i)
    \/ \E i \in Tasks : GetRaises(i)
    \/ Collect

(***************************************************************************)
(* TimePeriod (models/common_models.py)                                    *)
(* A string is a sequence of one-character strings.                        *)
(***************************************************************************)
Digits == {"0", "1", "2", "3", "4", "5", "6", "7", "8", "9"}

DigitValue ==
    ("0" :> 0) @@ ("1" :> 1) @@ ("2" :> 2) @@ ("3" :> 3) @@ ("4" :> 4) @@
    ("5" :> 5) @@ ("6" :> 6) @@ ("7" :> 7) @@ ("8" :> 8) @@ ("9" :> 9)

\* the strings offered as start_date / end_date
YearTexts == {<<"2", "0", "2", "4">>, <<"2", "0", "2", "3">>, <<"2", "4">>}
MonthTexts == {<<"0", "1">>, <<"1">>, <<"0", "2">>, <<"1", "2">>, <<"1", "3">>}
DayTexts == {<<"0", "5">>, <<"5">>, <<" ", "5">>, <<"3", "0">>}
Separators == {"-", "/"}
DateStrings ==
    {y \o <<c>> \o m \o <<c>> \o d :
        y \in YearTexts, m \in MonthTexts, d \in DayTexts, c \in Separators}

\* positions after a literal character c, starting from the positions in P
AfterLiteral(s, P, c) == {i + 1 : i \in {j \in P : j <= Len(s) /\ s[j] = c}}

\* %Y is \d\d\d\d
AfterYear(s, P) ==
    {i + 4 : i \in {j \in P : j + 3 <= Len(s) /\ \A k \in j..(j + 3) : s[k] \in Digits}}

\* %m is 1[0-2]|0[1-9]|[1-9]
AfterMonth(s, P) ==
    {i + 2 : i \in {j \in P : /\ j + 1 <= Len(s)
                              /\ \/ s[j] = "1" /\ s[j + 1] \in {"0", "1", "2"}
                                 \/ s[j] = "0" /\ s[j + 1] \in Digits \ {"0"}}}
    \cup {i + 1 : i \in {j \in P : j <= Len(s) /\ s[j] \in Digits \ {"0"}}}

\* %d is 3[0-1]|[1-2]\d|0[1-9]|[1-9]| [1-9]
AfterDay(s, P) ==
    {i + 2 : i \in {j \in P : /\ j + 1 <= Len(s)
                              /\ \/ s[j] = "3" /\ s[j + 1] \in {"0", "1"}
                                 \/ s[j] \in {"1", "2"} /\ s[j + 1] \in Digits
                                 \/ s[j] = "0" /\ s[j + 1] \in Digits \ {"0"}
                                 \/ s[j] = " " /\ s[j + 1] \in Digits \ {"0"}}}
    \cup {i + 1 : i \in {j \in P : j <= Len(s) /\ s[j] \in Digits \ {"0"}}}

\* the whole string matches %Y-%m-%d (anything left over is "unconverted data")
MatchesFormat(s) ==
    (Len(s) + 1) \in
        AfterDay(s, AfterLiteral(s, AfterMonth(s, AfterLiteral(s, AfterYear(s, {1}), "-")), "-"))

\* decimal value of the digits of s[from..to], a blank counting as nothing
RECURSIVE NumberAt(_, _, _)
NumberAt(s, from, to) ==
    IF to < from THEN 0
    ELSE IF s[to] = " " THEN NumberAt(s, from, to - 1)
    ELSE 10 * NumberAt(s, from, to - 1) + DigitValue[s[to]]

SecondDash(s) == CHOOSE i \in 6..Len(s) : s[i] = "-" /\ \A j \in 6..(i - 1) : s[j] # "-"

IsLeap(y) == (y % 4 = 0 /\ y % 100 # 0) \/ y % 400 = 0

DaysInMonth(y, m) ==
    IF m = 2 THEN (IF IsLeap(y) THEN 29 ELSE 28)
    ELSE IF m \in {4, 6, 9, 11} THEN 30 ELSE 31

\* datetime.strptime(v, "%Y-%m-%d"): the parsed date, or a ValueError
strptime(s) ==
    IF ~MatchesFormat(s) THEN [ok |-> FALSE]
    ELSE LET y == NumberAt(s, 1, 4)
             m == NumberAt(s, 6, SecondDash(s) - 1)
             d == NumberAt(s, SecondDash(s) + 1, Len(s))
         IN IF y >= 1 /\ d <= DaysInMonth(y, m)
            THEN [ok |-> TRUE, year |-> y, month |-> m, day |-> d]
            ELSE [ok |-> FALSE]

\* datetime comparison
DateOrdinal(dt) == dt.year * 10000 + dt.month * 100 + dt.day

\* lines 62-67
validate_date_format(v) == strptime(v).ok

\* lines 70-75
validate_date_range(sd, ed) == ~(DateOrdinal(strptime(sd)) > DateOrdinal(strptime(ed)))

TimePeriodInit ==
    /\ tp_pc = "start_date"
    /\ start_date \in DateStrings
    /\ end_date \in DateStrings
    /\ tp_errors = {}

TimePeriodIdle ==
    /\ tp_pc = "idle"
    /\ start_date = <<>>
    /\ end_date = <<>>
    /\ tp_errors = {}

\* lines 60-67 for start_date
ValidateStartDate ==
    /\ tp_pc = "start_date"
    /\ tp_errors' = IF validate_date_format(start_date) THEN tp_errors
                    ELSE tp_errors \cup {<<"start_date", "Date must be in YYYY-MM-DD format">>}
    /\ tp_pc' = "end_date"
    /\ UNCHANGED <<start_date, end_date, svars, dvars>>

\* lines 60-67 for end_date; the model validator runs only when no field failed
ValidateEndDate ==
    /\ tp_pc = "end_date"
    /\ tp_errors' = IF validate_date_format(end_date) THEN tp_errors
                    ELSE tp_errors \cup {<<"end_date", "Date must be in YYYY-MM-DD format">>}
    /\ tp_pc' = IF tp_errors' = {} THEN "range" ELSE "rejected"
    /\ UNCHANGED <<start_date, end_date, svars, dvars>>

\* lines 69-75
ValidateDateRange ==
    /\ tp_pc = "range"
    /\ IF validate_date_range(start_date, end_date)
       THEN tp_pc' = "valid" /\ tp_errors' = tp_errors
       ELSE /\ tp_pc' = "rejected"
            /\ tp_errors' = tp_errors \cup {<<"model", "start_date must be before end_date">>}
    /\ UNCHANGED <<start_date, end_date, svars, dvars>>

TimePeriodNext ==
    \/ ValidateStartDate
    \/ ValidateEndDate
    \/ ValidateDateRange

(***************************************************************************)
(* Specifications                                                          *)
(***************************************************************************)
Init == SearchInit /\ DetailIdle /\ TimePeriodIdle
Next == SearchNext
Spec == Init /\ [][Next]_vars

DInit == SearchIdle /\ DetailInit /\ TimePeriodIdle
DNext == DetailNext
DetailSpec == DInit /\ [][DNext]_vars

\* the event loop runs every task that can run, and every GET is answered
DetailFairSpec == DInit /\ [][DNext]_vars /\ WF_vars(DNext)

\* one invocation of either tool
ToolInit == Init \/ DInit
ToolNext == SearchNext \/ DetailNext
ToolSpec == ToolInit /\ [][ToolNext]_vars

TInit == SearchIdle /\ DetailIdle /\ TimePeriodInit
TNext == TimePeriodNext
TimePeriodSpec == TInit /\ [][TNext]_vars

(***************************************************************************)
(* Vocabulary of the properties                                            *)
(***************************************************************************)
Done == pc = "done"
Answered == Len(posts) - inflight
OkPage(i) == i \in DOMAIN upstream /\ upstream[i].kind = "ok"
RaisingPage(i) == i \in DOMAIN upstream /\ upstream[i].kind = "raise"
PageResults(i) == IF "results" \in DOMAIN upstream[i].body THEN upstream[i].body.results ELSE <<>>
ReportsHasNext(i, b) ==
    /\ "page_metadata" \in DOMAIN upstream[i].body
    /\ "hasNext" \in DOMAIN upstream[i].body.page_metadata
    /\ upstream[i].body.page_metadata.hasNext = b

RECURSIVE ConcatPages(_)
ConcatPages(k) == IF k = 0 THEN <<>> ELSE ConcatPages(k - 1) \o PageResults(k)

Max2(a, b) == IF a >= b THEN a ELSE b

\* C1: when the first page succeeds and a later page call raises, the tool
\* returns a JSON object holding exactly the results of the pages fetched before
\* the failure, and pages_fetched is the number of pages fetched successfully.
C1_PartialResults ==
    (Done /\ pages_to_fetch > 1 /\ OkPage(1) /\ Len(posts) >= 2 /\ RaisingPage(Len(posts)))
        => /\ ret.kind = "json"
           /\ ret.body.results = ConcatPages(Len(posts) - 1)
           /\ ret.body.page_metadata.pages_fetched = Len(posts) - 1

\* the part of C1 the code does satisfy: JSON, with the results of the pages before the failure
C1_ResultsOnly ==
    (Done /\ pages_to_fetch > 1 /\ OkPage(1) /\ Len(posts) >= 2 /\ RaisingPage(Len(posts)))
        => /\ ret.kind = "json"
           /\ ret.body.results = ConcatPages(Len(posts) - 1)

\* an upstream that answers every page with non-empty results and hasNext=true
AlwaysHasNext ==
    \A i \in DOMAIN upstream :
        OkPage(i) /\ PageResults(i) # <<>> /\ ReportsHasNext(i, TRUE)

\* C2 as stated: with budget B >= 2 and an upstream that always reports
\* hasNext=true, exactly B calls are issued and the response has
\* fetch_completed=false and has_more_pages=true.
C2_Original ==
    (Done /\ pages_to_fetch >= 2 /\ AlwaysHasNext)
        => /\ Len(posts) = pages_to_fetch
           /\ ret.kind = "json"
           /\ ret.body.page_metadata.fetch_completed = FALSE
           /\ ret.body.page_metadata.has_more_pages = TRUE

\* C2 amended: with budget B >= 2 and an upstream that always reports
\* hasNext=true, exactly B calls are issued and the response has
\* fetch_completed=true (the budget was reached) and has_more_pages=true.
C2_BudgetReached ==
    (Done /\ pages_to_fetch >= 2 /\ AlwaysHasNext)
        => /\ Len(posts) = pages_to_fetch
           /\ ret.kind = "json"
           /\ ret.body.page_metadata.fetch_completed = TRUE
           /\ ret.body.page_metadata.has_more_pages = TRUE

C2_Witness ==
    Done /\ pages_to_fetch >= 2 /\ AlwaysHasNext /\ ret.kind = "json" /\ Len(posts) >= 2

\* pages 1..k are non-empty, pages 1..k-1 report hasNext=true, page k hasNext=false
ExhaustsAt(k) ==
    /\ k \in DOMAIN upstream
    /\ \A i \in 1..k : OkPage(i) /\ PageResults(i) # <<>> /\ ReportsHasNext(i, i < k)

\* C3: for an upstream exhausted at page k and a budget >= max(k, 2), exactly k
\* calls are issued, results is the in-order concatenation of the k pages,
\* total_results_fetched its length, pages_fetched = k, has_more_pages = false
\* and fetch_completed = true.
C3_FullFetch ==
    Done => \A k \in DOMAIN upstream :
        (ExhaustsAt(k) /\ pages_to_fetch >= Max2(k, 2))
            => /\ Len(posts) = k
               /\ ret.kind = "json"
               /\ ret.body.results = ConcatPages(k)
               /\ ret.body.page_metadata.total_results_fetched = Len(ConcatPages(k))
               /\ ret.body.page_metadata.pages_fetched = k
               /\ ret.body.page_metadata.has_more_pages = FALSE
               /\ ret.body.page_metadata.fetch_completed = TRUE

C3_Witness ==
    /\ Done
    /\ \E k \in DOMAIN upstream :
          k >= 2 /\ ExhaustsAt(k) /\ pages_to_fetch > k /\ PageResults(1) # PageResults(2)

\* C4: with pages_to_fetch <= 1 exactly one POST is issued and, when it
\* returns, the tool returns that response unchanged, whatever hasNext says.
C4_SinglePage ==
    pages_to_fetch <= 1
        => /\ Len(posts) <= 1
           /\ Done => Len(posts) = 1
           /\ (Done /\ OkPage(1)) => ret = [kind |-> "json", body |-> upstream[1].body]

C4_Witness ==
    Done /\ pages_to_fetch = 1 /\ OkPage(1) /\ ReportsHasNext(1, TRUE) /\ ret.kind = "json"

\* the i-th call of this invocation has returned zero results
ZeroResultPage(i) == i <= Answered /\ OkPage(i) /\ PageResults(i) = <<>>

\* C5 as stated: in a multi-page fetch, once any page call has returned zero
\* results, no further POST is issued.
C5_Original ==
    [][(pages_to_fetch > 1 /\ \E i \in 1..Len(posts) : ZeroResultPage(i))
          => Len(posts') = Len(posts)]_vars

\* C5 amended: in a multi-page fetch, once a page call after the first has
\* returned zero results, no further POST is issued.
C5_LaterPageGuard ==
    [][(pages_to_fetch > 1 /\ \E i \in 2..Len(posts) : ZeroResultPage(i))
          => Len(posts') = Len(posts)]_vars

C5_Witness ==
    /\ Done
    /\ \E i \in 2..Len(posts) :
          /\ ZeroResultPage(i)
          /\ ReportsHasNext(i, TRUE)
          /\ \A j \in 1..i : ReportsHasNext(j, TRUE)
          /\ i < pages_to_fetch

\* C6: if the first page call raises, no further call is issued and the tool
\* returns the string "Error searching spending by award: <detail>".
C6_FirstPageFailure ==
    RaisingPage(1)
        => /\ Len(posts) <= 1
           /\ Done => ret = [kind |-> "string",
                             text |-> <<"Error searching spending by award: ",
                                        upstream[1].detail>>]

C6_Witness == Done /\ RaisingPage(1) /\ pages_to_fetch > 1 /\ Len(posts) = 1

\* C7: every page request sent differs from the original request only in
\* pagination.page, and once the tool has returned the caller's request has the
\* value it had when the call started.
C7_RequestUntouched ==
    /\ \A i \in 1..Len(posts) :
          [posts[i] EXCEPT !.pagination.page = request0.pagination.page] = request0
    /\ Done => model_dump(award_search_request, heap) = request0

\* the part of C7 the code does satisfy: the bodies sent differ only in pagination.page
C7_SentBodies ==
    \A i \in 1..Len(posts) :
        [posts[i] EXCEPT !.pagination.page = request0.pagination.page] = request0

InFlightCount == Cardinality({i \in Tasks : task[i] = "inflight"})

C8_Limit ==
    LET a == IF requested <= ConcurrencyCeiling THEN requested ELSE ConcurrencyCeiling
    IN IF a <= Len(award_ids) THEN a ELSE Len(award_ids)

\* C8: while fetch tasks exist, the number of GET calls in flight never exceeds
\* min(max_concurrent, 10, len(award_ids)).
C8_BoundedInFlight ==
    (\E i \in Tasks : task[i] # "none") => InFlightCount <= C8_Limit

C8_Witness ==
    /\ requested > ConcurrencyCeiling
    /\ Len(award_ids) > ConcurrencyCeiling
    /\ InFlightCount = ConcurrencyCeiling
    /\ \E i \in Tasks : task[i] = "created"

DDone == dpc = "done"
DistinctIds == \A i, j \in Tasks : i # j => award_ids[i] # award_ids[j]
Succeeded == {i \in Tasks : outcome[i] = "ok"}
Failed == {i \in Tasks : outcome[i] = "raise"}

\* C9: for distinct identifiers, once every GET has returned or raised, the
\* tool returns a JSON object whose results maps exactly the identifiers whose
\* GET returned to their payloads, whose errors maps exactly the identifiers
\* whose GET raised to their messages, and whose counts are the sizes of the two.
C9_FailureIsolation ==
    (DDone /\ DistinctIds /\ award_ids # <<>> /\ \A i \in Tasks : task[i] = "done")
        => /\ dret.kind = "json"
           /\ DOMAIN dret.body.results = {award_ids[i] : i \in Succeeded}
           /\ \A i \in Succeeded : dret.body.results[award_ids[i]] = GetData(i)
           /\ Failed # {} =>
                 /\ "errors" \in DOMAIN dret.body
                 /\ DOMAIN dret.body.errors = {award_ids[i] : i \in Failed}
                 /\ \A i \in Failed : dret.body.errors[award_ids[i]] = GetError(i)
           /\ dret.body.success_count = Cardinality(Succeeded)
           /\ dret.body.error_count = Cardinality(Failed)

C9_Witness ==
    /\ DDone
    /\ Len(award_ids) = 5
    /\ DistinctIds
    /\ Failed = {2, 4}
    /\ dret.kind = "json"
    /\ dret.body.success_count = 3
    /\ dret.body.error_count = 2

\* C10: in every JSON response of get_award_details the errors key is present
\* exactly when error_count > 0, and it is absent when every identifier succeeds.
C10_ErrorsKey ==
    dret.kind = "json"
        => /\ ("errors" \in DOMAIN dret.body) <=> (dret.body.error_count > 0)
           /\ Failed = {} => "errors" \notin DOMAIN dret.body

C10_Witness ==
    /\ dret.kind = "json"
    /\ Len(award_ids) >= 2
    /\ Failed = {}
    /\ "errors" \notin DOMAIN dret.body

\* C11: called with an empty identifier list, get_award_details returns the
\* literal string "Error: No valid award IDs provided"; the fan-out is never
\* entered, so no semaphore slot, fetch task or GET exists.
C11_EmptyList ==
    award_ids = <<>>
        => /\ dpc \in {"start", "done"}
           /\ semaphore = 0
           /\ \A i \in DOMAIN gets : gets[i] = 0
           /\ DDone => dret = [kind |-> "string",
                               text |-> <<"Error: No valid award IDs provided">>]

C11_Witness == DDone /\ award_ids = <<>> /\ dret.kind = "string" /\ requested > 0

\* C12: every invocation of either tool that finishes hands back a JSON object
\* or a string; no exception leaves the tool, whatever the upstream does.
C12_NoExceptionEscapes ==
    /\ pc = "done" => ret.kind \in {"json", "string"}
    /\ dpc = "done" => dret.kind \in {"json", "string"}

C12_Witness ==
    /\ Done
    /\ pages_to_fetch > 1
    /\ OkPage(1)
    /\ "page_metadata" \notin DOMAIN upstream[1].body
    /\ ret.kind = "string"

\* the string has the shape dddd-dd-dd
IsYMDForm(s) ==
    /\ Len(s) = 10
    /\ s[5] = "-" /\ s[8] = "-"
    /\ \A k \in {1, 2, 3, 4, 6, 7, 9, 10} : s[k] \in Digits

\* C13: a TimePeriod is constructed only if both dates are strings in
\* YYYY-MM-DD form and start_date <= end_date.
C13_TimePeriodValid ==
    tp_pc = "valid"
        => /\ IsYMDForm(start_date)
           /\ IsYMDForm(end_date)
           /\ DateOrdinal(strptime(start_date)) <= DateOrdinal(strptime(end_date))

\* the parts of C13 the code does satisfy: every TimePeriod that exists has
\* start <= end as dates, and a string that strptime cannot read is rejected
C13_RangeOnly ==
    tp_pc = "valid"
        => /\ strptime(start_date).ok /\ strptime(end_date).ok
           /\ DateOrdinal(strptime(start_date)) <= DateOrdinal(strptime(end_date))

\* C14: for a positive pages_to_fetch, one invocation issues at most
\* pages_to_fetch POST calls.
C14_PageBudget == pages_to_fetch >= 1 => Len(posts) <= pages_to_fetch

C14_Witness == Done /\ pages_to_fetch >= 2 /\ Len(posts) = pages_to_fetch /\ has_next

Enriched ==
    /\ ret.kind = "json"
    /\ "page_metadata" \in DOMAIN ret.body
    /\ "fetch_completed" \in DOMAIN ret.body.page_metadata

\* C15: in every enriched response, fetch_completed is true exactly when
\* has_more_pages is false or pages_fetched >= requested_max_pages.
C15_FetchCompletedIff ==
    Enriched =>
        LET m == ret.body.page_metadata
        IN m.fetch_completed <=> (~m.has_more_pages \/ m.pages_fetched >= m.requested_max_pages)

C15_Witness ==
    /\ Enriched
    /\ ret.body.page_metadata.fetch_completed = FALSE
    /\ ret.body.page_metadata.pages_fetched >= 2

\* C16: at most one POST is in flight; the i-th request asks for page p+i-1,
\* p being the starting page; and a request after the first is issued only
\* once the previous one was answered with hasNext=true.
C16_Sequential ==
    /\ inflight \in {0, 1}
    /\ \A i \in 1..Len(posts) : posts[i].pagination.page = request0.pagination.page + (i - 1)
    /\ \A i \in 2..Len(posts) :
          (i - 1) <= Answered /\ OkPage(i - 1) /\ ReportsHasNext(i - 1, TRUE)

C16_Witness == Len(posts) = 3 /\ inflight = 1 /\ request0.pagination.page = 2

\* C17: when the first response has no page_metadata and pages_to_fetch > 1,
\* no further call is issued and a JSON object is returned with the first
\* page's results, pages_fetched=1, has_more_pages=false, fetch_completed=true.
C17_MissingMetadata ==
    (Done /\ pages_to_fetch > 1 /\ OkPage(1) /\ "page_metadata" \notin DOMAIN upstream[1].body)
        => /\ Len(posts) = 1
           /\ ret.kind = "json"
           /\ ret.body.results = PageResults(1)
           /\ ret.body.page_metadata.pages_fetched = 1
           /\ ret.body.page_metadata.has_more_pages = FALSE
           /\ ret.body.page_metadata.fetch_completed = TRUE

\* the part of C17 the code does satisfy: no further call is issued
C17_NoFurtherCall ==
    (pages_to_fetch > 1 /\ OkPage(1) /\ "page_metadata" \notin DOMAIN upstream[1].body)
        => Len(posts) <= 1

\* C18: when a later page call succeeds with zero results, the returned
\* has_more_pages is the previous page's hasNext and pages_fetched does not
\* count the empty page.
C18_EmptyPageStop ==
    (Done /\ pages_to_fetch > 1 /\ Len(posts) >= 2 /\ ret.kind = "json"
          /\ OkPage(Len(posts)) /\ PageResults(Len(posts)) = <<>>)
        => /\ ret.body.page_metadata.has_more_pages = HasNextOf(upstream[Len(posts) - 1].body)
           /\ ret.body.page_metadata.pages_fetched = Len(posts) - 1

\* C19: for a non-empty identifier list and any max_concurrent, every fetch
\* task that was created eventually completes and get_award_details
\* eventually returns.
C19_Liveness ==
    (dpc = "start" /\ award_ids # <<>>)
        ~> (dpc = "done" /\ \A i \in Tasks : task[i] \in {"none", "done"})

\* C20: exactly one GET is issued per element of award_ids, and the response
\* is built only after every task has completed.
C20_AllTasksAwaited ==
    /\ \A i \in Tasks : gets[i] <= 1
    /\ dret.kind = "json" => \A i \in Tasks : gets[i] = 1 /\ task[i] = "done"

C20_Witness ==
    /\ dret.kind = "json"
    /\ Len(award_ids) >= 3
    /\ Failed # {}
    /\ Succeeded # {}

\* C21: while fetch tasks exist, the slots taken from the limiter are exactly
\* the tasks between acquire and release, and when the tool returns its JSON
\* response every slot is free again, also when GETs failed.
C21_SlotsBalanced ==
    /\ (\E i \in Tasks : task[i] # "none")
          => /\ semaphore >= 0
             /\ C8_Limit - semaphore = InFlightCount
    /\ dret.kind = "json" => semaphore = C8_Limit

C21_Witness ==
    /\ dret.kind = "json"
    /\ Failed # {}
    /\ Succeeded # {}
    /\ C8_Limit < Len(award_ids)
    /\ semaphore = C8_Limit

\* C22: in every enriched response pages_fetched is the number of POST calls
\* the invocation issued, and 1 <= pages_fetched <= requested_max_pages.
C22_PagesFetchedCountsCalls ==
    Enriched =>
        LET m == ret.body.page_metadata
        IN /\ m.pages_fetched = Len(posts)
           /\ 1 <= m.pages_fetched
           /\ m.pages_fetched <= m.requested_max_pages
           /\ m.requested_max_pages = pages_to_fetch

C22_Witness ==
    /\ Enriched
    /\ Len(posts) >= 2
    /\ RaisingPage(Len(posts))
    /\ ret.body.page_metadata.pages_fetched = Len(posts)

\* C23: for every non-empty award_ids list, repeats included, the JSON response
\* has success_count + error_count = len(award_ids) and no identifier is a key
\* of both results and errors.
C23_CountsAddUp ==
    (dret.kind = "json" /\ award_ids # <<>>)
        => /\ dret.body.success_count + dret.body.error_count = Len(award_ids)
           /\ "errors" \in DOMAIN dret.body
                 => (DOMAIN dret.body.results) \cap (DOMAIN dret.body.errors) = {}

\* the part of C23 the code does satisfy: lists without a repeated identifier
C23_DistinctOnly ==
    (dret.kind = "json" /\ award_ids # <<>> /\ DistinctIds)
        => /\ dret.body.success_count + dret.body.error_count = Len(award_ids)
           /\ "errors" \in DOMAIN dret.body
                 => (DOMAIN dret.body.results) \cap (DOMAIN dret.body.errors) = {}

\* the response as a function of the arguments and of each identifier's outcome
TaskOf(a) == CHOOSE i \in Tasks : award_ids[i] = a

ExpectedBody ==
    LET ok == {award_ids[i] : i \in Succeeded}
        ko == {award_ids[i] : i \in Failed}
        base == [success_count |-> Cardinality(ok),
                 error_count |-> Cardinality(ko),
                 results |-> [a \in ok |-> [generated_unique_award_id |-> a,
                                            call |-> TaskOf(a)]]]
    IN IF ko = {} THEN base
       ELSE [k \in {"success_count", "error_count", "results", "errors"} |->
                IF k = "errors" THEN [a \in ko |-> <<"transport error", TaskOf(a)>>]
                ELSE base[k]]

\* C24: for distinct identifiers, whatever the interleaving and the completion
\* order of the tasks, a call that returns hands back the one response fixed
\* by the identifier list, max_concurrent and each identifier's outcome.
C24_ScheduleIndependent ==
    (DDone /\ DistinctIds /\ award_ids # <<>>)
        => IF requested < 0
           THEN dret = [kind |-> "string",
                        text |-> <<"Error processing award details request: ",
                                   "Semaphore initial value must be >= 0">>]
           ELSE dret = [kind |-> "json", body |-> ExpectedBody]

C24_Witness ==
    /\ DDone
    /\ DistinctIds
    /\ Len(award_ids) >= 3
    /\ C8_Limit >= 2
    /\ Failed # {}
    /\ Succeeded # {}
    /\ dret.kind = "json"

====
